---------------------------- MODULE Spec2Model ----------------------------
(***************************************************************************)
(* A model of src/src/App.js of slachet/timeslotvisualizer: the row store  *)
(* (React state rows / earliest / latest / selectAll), its event handlers, *)
(* the bounds-deriving effect, the text import and export, and the         *)
(* timeline layout of renderBarSegments.                                   *)
(*                                                                         *)
(* Values.  A Date is its time value in milliseconds counted from the      *)
(* local midnight of the model's day 0; the zone has no DST change, so a   *)
(* calendar day is MsPerDay long.  Null is JS null, InvalidDate is a Date  *)
(* whose time value is NaN.  A string is a sequence of characters Ch(c);   *)
(* the 19 characters "yyyy-MM-dd HH:mm:ss" that name a local second are    *)
(* one token Ts(sec).                                                      *)
(*                                                                         *)
(* Specifications.  Spec is the page with every handler, on few inputs.    *)
(* SpecLayout, SpecDrag and SpecText run the same handlers on the inputs   *)
(* the layout, the drag placement and the text round trip need.            *)
(***************************************************************************)
EXTENDS Integers, Sequences, FiniteSets, TLC

VARIABLES
  rows,          \* useState rows: sequence of row objects
  errorsHeap,    \* the errors objects the rows refer to (row.errors is an index)
  earliest,      \* useState earliest
  latest,        \* useState latest
  selectAll,     \* useState selectAll
  effectPending, \* the [rows] effect of the last commit has not run yet
  readers,       \* FileReaders whose readAsText has not finished: their file texts
  download,      \* the export.txt the last step handed to the browser, if it did
  view           \* what the last render put in the "Time Slot" cells

vars == <<rows, errorsHeap, earliest, latest, selectAll, effectPending,
          readers, download, view>>

-----------------------------------------------------------------------------
(* Bounds of the model *)

MaxRows == 2

MaxReaders == 2

MaxDragRows == 3

MaxTextRows == 2

MaxLayoutRows == 1

-----------------------------------------------------------------------------
(* Program constants *)

barColors == <<"#03AED2", "#FDDE55", "#1E88E5", "#FBC02D">>

offset == 5

MsPerDay == 86400000

MsPerSecond == 1000

Null == -1

InvalidDate == -2

Undefined == "undefined"

NoFile == <<[k |-> "nofile"]>>

-----------------------------------------------------------------------------
(* Dates (date-fns) and JS comparisons *)

IsDate(d) == d >= 0

\* !x for a Date-or-null value: every Date object, an invalid one too, is truthy
Truthy(d) == d # Null

startOfDay(d) == IF IsDate(d) THEN d - (d % MsPerDay) ELSE InvalidDate

endOfDay(d) == IF IsDate(d) THEN startOfDay(d) + MsPerDay - 1 ELSE InvalidDate

addDays(d, n) == IF IsDate(d) THEN d + n * MsPerDay ELSE InvalidDate

\* a < b and a >= b on Dates: false as soon as one side is NaN
DateLt(a, b) == IsDate(a) /\ IsDate(b) /\ a < b

DateGe(a, b) == IsDate(a) /\ IsDate(b) /\ a >= b

Min(S) == CHOOSE m \in S : \A y \in S : m <= y

Max(S) == CHOOSE m \in S : \A y \in S : m >= y

-----------------------------------------------------------------------------
(* Text *)

Ch(c) == [k |-> "ch", c |-> c]

Ts(sec) == [k |-> "ts", sec |-> sec]

TAB == Ch("\t")

LF == Ch("\n")

CR == Ch("\r")

SP == Ch(" ")

IsSpace(t) == t \in {TAB, LF, CR, SP}

\* String.prototype.trim() leaves the empty string
IsBlank(s) == \A i \in 1..Len(s) : IsSpace(s[i])

RECURSIVE Join(_, _)
Join(parts, sep) ==
  IF Len(parts) = 0 THEN <<>>
  ELSE IF Len(parts) = 1 THEN parts[1]
  ELSE parts[1] \o sep \o Join(Tail(parts), sep)

\* s.split('\t')
RECURSIVE SplitTab(_, _)
SplitTab(s, cur) ==
  IF Len(s) = 0 THEN <<cur>>
  ELSE IF s[1] = TAB THEN <<cur>> \o SplitTab(Tail(s), <<>>)
  ELSE SplitTab(Tail(s), Append(cur, s[1]))

\* s.split(/\r\n|\n/)
RECURSIVE SplitLines(_, _)
SplitLines(s, cur) ==
  IF Len(s) = 0 THEN <<cur>>
  ELSE IF Len(s) >= 2 /\ s[1] = CR /\ s[2] = LF
       THEN <<cur>> \o SplitLines(Tail(Tail(s)), <<>>)
  ELSE IF s[1] = LF THEN <<cur>> \o SplitLines(Tail(s), <<>>)
  ELSE SplitLines(Tail(s), Append(cur, s[1]))

\* the pattern 'yyyy-MM-dd HH:mm' of the date pickers: the seconds dropped too
formatToMinute(d) == <<Ts((d \div (60 * MsPerSecond)) * 60)>>

\* format(d, 'yyyy-MM-dd HH:mm:ss') of a valid Date: the local second, the
\* milliseconds dropped
format(d) == <<Ts(d \div MsPerSecond)>>

\* parseISO(s) of a non-empty string
parseISO(s) ==
  IF Len(s) = 1 /\ s[1].k = "ts" THEN s[1].sec * MsPerSecond ELSE InvalidDate

-----------------------------------------------------------------------------
(* validateIP of ./utils *)

Digits == {"0", "1", "2", "3", "4", "5", "6", "7", "8", "9"}

DigitValue(c) ==
  CASE c = "0" -> 0 [] c = "1" -> 1 [] c = "2" -> 2 [] c = "3" -> 3
    [] c = "4" -> 4 [] c = "5" -> 5 [] c = "6" -> 6 [] c = "7" -> 7
    [] c = "8" -> 8 [] c = "9" -> 9

RECURSIVE SplitDot(_, _)
SplitDot(s, cur) ==
  IF Len(s) = 0 THEN <<cur>>
  ELSE IF s[1] = Ch(".") THEN <<cur>> \o SplitDot(Tail(s), <<>>)
  ELSE SplitDot(Tail(s), Append(cur, s[1]))

RECURSIVE DecimalValue(_, _)
DecimalValue(g, acc) ==
  IF Len(g) = 0 THEN acc
  ELSE DecimalValue(Tail(g), 10 * acc + DigitValue(g[1].c))

IsOctet(g) ==
  /\ Len(g) \in 1..3
  /\ \A i \in 1..Len(g) : g[i].k = "ch" /\ g[i].c \in Digits
  /\ DecimalValue(g, 0) <= 255

validateIP(s) ==
  LET groups == SplitDot(s, <<>>)
  IN  Len(groups) = 4 /\ \A i \in 1..4 : IsOctet(groups[i])

-----------------------------------------------------------------------------
(* Import and export of the row text *)

\* one element of line.split('\t'), undefined when the line has fewer fields
FieldOf(fields, n) == IF Len(fields) >= n THEN fields[n] ELSE <<>>

\* start ? parseISO(start) : null
importDate(s) == IF Len(s) = 0 THEN Null ELSE parseISO(s)

\* the row object reader.onload builds from one line; errors is set by the caller
importLine(line) ==
  LET fields == SplitTab(line, <<>>)
  IN  [name |-> FieldOf(fields, 1),
       ip |-> FieldOf(fields, 2),
       start |-> importDate(FieldOf(fields, 3)),
       end |-> importDate(FieldOf(fields, 4)),
       errors |-> 0,
       selected |-> FALSE]

NonBlankLine(line) == ~IsBlank(line)

importFromText(text) ==
  LET lines == SelectSeq(SplitLines(text, <<>>), NonBlankLine)
  IN  [n \in 1..Len(lines) |-> importLine(lines[n])]

\* row.start ? format(row.start, ...) : ''
exportDate(d) == IF Truthy(d) THEN format(d) ELSE <<>>

exportLine(row) ==
  row.name \o <<TAB>> \o row.ip \o <<TAB>> \o exportDate(row.start)
           \o <<TAB>> \o exportDate(row.end)

\* format throws RangeError on an invalid Date: handleExport ends there
exportThrows(rs) ==
  \E n \in 1..Len(rs) : rs[n].start = InvalidDate \/ rs[n].end = InvalidDate

exportToText(rs) == Join([n \in 1..Len(rs) |-> exportLine(rs[n])], <<CR, LF>>)

-----------------------------------------------------------------------------
(* Timeline layout: renderBarSegments, calculateWidth, calculateLeftPosition *)

\* a JS number a / b kept as a fraction; den = 0 with num = 0 is NaN, den = 0
\* with num # 0 an infinity
NaN == [num |-> 0, den |-> 0]

Zero == [num |-> 0, den |-> 1]

\* null - Date converts null to 0; earliest and latest are set together, so
\* no reachable state takes that branch
ToNumber(d) == IF d = Null THEN 0 ELSE d

Ratio(a, b, c, d) ==
  IF InvalidDate \in {a, b, c, d} THEN NaN
  ELSE [num |-> ToNumber(a) - ToNumber(b), den |-> ToNumber(c) - ToNumber(d)]

calculateWidth(start, end, e, l) ==
  IF ~Truthy(e) \/ ~Truthy(l) \/ ~Truthy(start) \/ ~Truthy(end) THEN Zero
  ELSE Ratio(end, start, l, e)

calculateLeftPosition(start, e, l) ==
  IF ~Truthy(e) \/ ~Truthy(start) THEN [pct |-> Zero, px |-> offset]
  ELSE [pct |-> Ratio(start, e, l, e), px |-> offset]

\* the while loop of renderBarSegments and the push after it
RECURSIVE partitionLoop(_, _, _, _)
partitionLoop(currentStart, currentEnd, end, segments) ==
  IF DateLt(currentEnd, end)
  THEN LET nextStart == startOfDay(addDays(currentEnd, 1))
       IN  partitionLoop(nextStart, endOfDay(nextStart), end,
                         Append(segments, [start |-> currentStart, end |-> currentEnd]))
  ELSE Append(segments, [start |-> currentStart, end |-> end])

\* the first window ends 24 hours after start instead of at the end of its day
partitionBy24Hours(start, end) == partitionLoop(start, addDays(start, 1), end, <<>>)

partition(start, end) == partitionLoop(start, endOfDay(start), end, <<>>)

\* a % n of JS: the sign of the dividend
JsRem(a, n) == IF a >= 0 THEN a % n ELSE -((-a) % n)

\* Math.floor((segment.start - startOfDay(earliest)) / (24*60*60*1000)) and
\* barColors[dayIndex % barColors.length]; NaN or a negative index reads undefined
segmentColor(segStart, e) ==
  IF ~IsDate(segStart) \/ ~IsDate(startOfDay(e)) THEN Undefined
  ELSE LET dayIndex == (segStart - startOfDay(e)) \div MsPerDay
           idx == JsRem(dayIndex, Len(barColors))
       IN  IF idx \in 0..(Len(barColors) - 1) THEN barColors[idx + 1] ELSE Undefined

segmentBox(seg, start, end, e, l) ==
  [start |-> seg.start,
   end |-> seg.end,
   color |-> segmentColor(seg.start, e),
   left |-> calculateLeftPosition(seg.start, e, l),
   width |-> calculateWidth(seg.start, seg.end, e, l),
   isFirstSegment |-> IsDate(seg.start) /\ seg.start = start,
   isLastSegment |-> IsDate(seg.end) /\ seg.end = end]

renderBarSegments(start, end, e, l) ==
  IF ~Truthy(start) \/ ~Truthy(end) THEN [kind |-> "none", segs |-> <<>>]
  ELSE IF DateGe(start, end) THEN [kind |-> "invalid", segs |-> <<>>]
  ELSE LET segments == partition(start, end)
       IN  [kind |-> "segments",
            segs |-> [n \in 1..Len(segments) |->
                        segmentBox(segments[n], start, end, e, l)]]

\* the "Time Slot" cell of every row
render(rs, e, l) ==
  [n \in 1..Len(rs) |-> renderBarSegments(rs[n].start, rs[n].end, e, l)]

-----------------------------------------------------------------------------
(* The heap of errors objects.  row.errors is an index into errorsHeap; two   *)
(* rows with the same index hold the same object.  Indices are renumbered in  *)
(* order of first use after every step and unreferenced objects are dropped,  *)
(* so that equal object graphs are equal states.                              *)

NewErrors == [ip |-> "", date |-> ""]

FirstUse(rs, n) == Min({m \in 1..Len(rs) : rs[m].errors = rs[n].errors})

CanonIndex(rs, n) ==
  Cardinality({FirstUse(rs, m) : m \in {q \in 1..Len(rs) : FirstUse(rs, q) <= FirstUse(rs, n)}})

CanonRows(rs) == [n \in 1..Len(rs) |-> [rs[n] EXCEPT !.errors = CanonIndex(rs, n)]]

CanonHeap(rs, heap) ==
  LET firsts == {FirstUse(rs, n) : n \in 1..Len(rs)}
  IN  [i \in 1..Cardinality(firsts) |->
         heap[rs[CHOOSE n \in firsts : CanonIndex(rs, n) = i].errors]]

\* row.errors.ip as the view reads it
errorsIp(rs, heap, n) == heap[rs[n].errors].ip

-----------------------------------------------------------------------------
(* Array helpers *)

\* Array.prototype.splice(i, 1) and splice(i, 0, x), i counted from 0
RemoveAt(s, i) == [n \in 1..(Len(s) - 1) |-> IF n <= i THEN s[n] ELSE s[n + 1]]

InsertAt(s, i, x) ==
  [n \in 1..(Len(s) + 1) |-> IF n <= i THEN s[n] ELSE IF n = i + 1 THEN x ELSE s[n - 1]]

\* the row is put back one place too far when it is dragged downwards
reorderShifted(rs, from, to) ==
  IF to > from /\ to < Len(rs) - 1
  THEN InsertAt(RemoveAt(rs, from), to + 1, rs[from + 1])
  ELSE InsertAt(RemoveAt(rs, from), to, rs[from + 1])

\* the three lines of handleDragEnd that build newRows
reorder(rs, from, to) == InsertAt(RemoveAt(rs, from), to, rs[from + 1])

\* setRows(newRows) and the render it causes; the [rows] effect is then due
setRows(newRows, newHeap) ==
  /\ rows' = CanonRows(newRows)
  /\ errorsHeap' = CanonHeap(newRows, newHeap)
  /\ effectPending' = TRUE
  /\ view' = render(newRows, earliest, latest)
  /\ UNCHANGED <<earliest, latest>>

-----------------------------------------------------------------------------
(* Initial state: useState([]) / null / null / false *)

Init ==
  /\ rows = <<>>
  /\ errorsHeap = <<>>
  /\ earliest = Null
  /\ latest = Null
  /\ selectAll = FALSE
  /\ effectPending = TRUE
  /\ readers = <<>>
  /\ download = NoFile
  /\ view = <<>>

-----------------------------------------------------------------------------
(* The effect and the handlers.  A handler runs on the committed state: the   *)
(* pending effect of the previous commit is flushed before the next event.    *)

useEffect ==
  /\ effectPending
  /\ effectPending' = FALSE
  /\ LET dates == {rows[n].start : n \in 1..Len(rows)} \cup {rows[n].end : n \in 1..Len(rows)}
         kept == {d \in dates : Truthy(d)}
     IN  IF Len(rows) > 0 /\ kept # {}
         THEN /\ earliest' = (IF InvalidDate \in kept THEN InvalidDate ELSE Min(kept))
              /\ latest' = (IF InvalidDate \in kept THEN InvalidDate ELSE Max(kept))
         ELSE UNCHANGED <<earliest, latest>>
  /\ view' = render(rows, earliest', latest')
  /\ download' = NoFile
  /\ UNCHANGED <<rows, errorsHeap, selectAll, readers>>

handleAddRow(max) ==
  /\ ~effectPending
  /\ Len(rows) < max
  /\ LET ref == Len(errorsHeap) + 1
         row == [name |-> <<>>, ip |-> <<>>, start |-> Null, end |-> Null,
                 errors |-> ref, selected |-> FALSE]
     IN  setRows(Append(rows, row), Append(errorsHeap, NewErrors))
  /\ download' = NoFile
  /\ UNCHANGED <<selectAll, readers>>

\* newRows[index][field] = value, then the write to newRows[index].errors.ip:
\* the row object and its errors object are written in place
handleChange(index, field, value) ==
  /\ ~effectPending
  /\ index \in 0..(Len(rows) - 1)
  /\ LET n == index + 1
         row == rows[n]
         newRow == CASE field = "name" -> [row EXCEPT !.name = value]
                     [] field = "ip" -> [row EXCEPT !.ip = value]
                     [] field = "start" -> [row EXCEPT !.start = value]
                     [] field = "end" -> [row EXCEPT !.end = value]
                     [] field = "selected" -> [row EXCEPT !.selected = value]
         message == IF field = "ip" /\ ~validateIP(value) THEN "Invalid IP address" ELSE ""
     IN  setRows([rows EXCEPT ![n] = newRow],
                 [errorsHeap EXCEPT ![row.errors].ip = message])
  /\ download' = NoFile
  /\ UNCHANGED <<selectAll, readers>>

handleDeleteRow(index) ==
  /\ ~effectPending
  /\ index \in 0..(Len(rows) - 1)
  /\ setRows(RemoveAt(rows, index), errorsHeap)
  /\ download' = NoFile
  /\ UNCHANGED <<selectAll, readers>>

NotSelected(row) == ~row.selected

IsSelected(row) == row.selected

handleDeleteSelected ==
  /\ ~effectPending
  /\ setRows(SelectSeq(rows, NotSelected), errorsHeap)
  /\ download' = NoFile
  /\ UNCHANGED <<selectAll, readers>>

\* { ...row, selected: false }: a new row object with the same errors object
handleCopySelected(max) ==
  /\ ~effectPending
  /\ LET selectedRows == SelectSeq(rows, IsSelected)
         copies == [n \in 1..Len(selectedRows) |-> [selectedRows[n] EXCEPT !.selected = FALSE]]
     IN  /\ Len(rows) + Len(selectedRows) <= max
         /\ setRows(rows \o copies, errorsHeap)
  /\ download' = NoFile
  /\ UNCHANGED <<selectAll, readers>>

handleSelectAll(checked) ==
  /\ ~effectPending
  /\ setRows([n \in 1..Len(rows) |-> [rows[n] EXCEPT !.selected = checked]],
             errorsHeap)
  /\ selectAll' = checked
  /\ download' = NoFile
  /\ UNCHANGED readers

\* destination = -1 stands for result.destination being null
handleDragEnd(source, destination) ==
  /\ ~effectPending
  /\ source \in 0..(Len(rows) - 1)
  /\ IF destination = -1
     THEN UNCHANGED <<rows, errorsHeap, earliest, latest, effectPending, view>>
     ELSE /\ destination \in 0..(Len(rows) - 1)
          /\ setRows(reorder(rows, source, destination), errorsHeap)
  /\ download' = NoFile
  /\ UNCHANGED <<selectAll, readers>>

\* a file was chosen: reader.readAsText(file) starts, nothing is set yet
handleImport(file) ==
  /\ ~effectPending
  /\ Len(readers) < MaxReaders
  /\ readers' = Append(readers, file)
  /\ download' = NoFile
  /\ UNCHANGED <<rows, errorsHeap, earliest, latest, selectAll, effectPending, view>>

\* reader.onload of the k-th reader in flight
readerOnload(k) ==
  /\ ~effectPending
  /\ k \in 1..Len(readers)
  /\ LET imported == importFromText(readers[k])
         importedRows == [n \in 1..Len(imported) |-> [imported[n] EXCEPT !.errors = n]]
     IN  setRows(importedRows, [n \in 1..Len(imported) |-> NewErrors])
  /\ readers' = [n \in 1..(Len(readers) - 1) |-> IF n < k THEN readers[n] ELSE readers[n + 1]]
  /\ download' = NoFile
  /\ UNCHANGED selectAll

handleExport ==
  /\ ~effectPending
  /\ ~exportThrows(rows)
  /\ download' = exportToText(rows)
  /\ UNCHANGED <<rows, errorsHeap, earliest, latest, selectAll, effectPending, readers, view>>

-----------------------------------------------------------------------------
(* Inputs *)

At(day, ms) == day * MsPerDay + ms

Hour(h) == h * 60 * 60 * MsPerSecond

Str(chars) == [n \in 1..Len(chars) |-> Ch(chars[n])]

GoodIp == Str(<<"1", ".", "2", ".", "3", ".", "4">>)

BadIp == Str(<<"1", ".", "2", ".", "3", ".", "2", "5", "6">>)

NameA == Str(<<"a">>)

Garbage == Str(<<"x">>)

\* day 0 10:00 and day 1 00:00; the page sets a start to T0 and an end to T1,
\* names are edited under SpecLayout
T0 == At(0, Hour(10))

T1 == At(1, 0)

Fields == {"ip", "start", "end", "selected"}

Values(field) ==
  CASE field = "name" -> {NameA}
    [] field = "ip" -> {GoodIp, BadIp}
    [] field = "start" -> {Null, T0}
    [] field = "end" -> {Null, T1}
    [] field = "selected" -> BOOLEAN

\* "<TAB>1.2.3.4<TAB>day 0 10:00:00<TAB>day 1 00:00:00", then the line
\* "<TAB><TAB>x<TAB>" whose start is no timestamp, then an empty line
FileA ==
  <<TAB>> \o GoodIp \o <<TAB>> \o format(T0) \o <<TAB>> \o format(T1) \o <<CR, LF>>
    \o <<TAB, TAB>> \o Garbage \o <<TAB, LF>>

Files == {FileA}

-----------------------------------------------------------------------------
(* The page: every handler, from the mounted component *)

Next ==
  \/ useEffect
  \/ handleAddRow(MaxRows)
  \/ \E index \in 0..(MaxRows - 1), field \in Fields :
       \E value \in Values(field) : handleChange(index, field, value)
  \/ \E index \in 0..(MaxRows - 1) : handleDeleteRow(index)
  \/ handleDeleteSelected
  \/ handleCopySelected(MaxRows)
  \/ \E checked \in BOOLEAN : handleSelectAll(checked)
  \/ \E source \in 0..(MaxRows - 1), destination \in -1..(MaxRows - 1) :
       handleDragEnd(source, destination)
  \/ \E file \in Files : handleImport(file)
  \/ \E k \in 1..MaxReaders : readerOnload(k)
  \/ handleExport

Spec == Init /\ [][Next]_vars

-----------------------------------------------------------------------------
(* Claims about the page *)

Positions == 1..Len(rows)

Indices == 0..(MaxRows - 1)

SetDates(rs) ==
  {d \in {rs[n].start : n \in 1..Len(rs)} \cup {rs[n].end : n \in 1..Len(rs)} : d # Null}

\* C1: in every settled state (the effect has run) whose rows hold no invalid
\* date, earliest and latest are the minimum and the maximum of the set
\* start/end values of the rows, and both are absent when no row has one.
BoundsMatchRecords ==
  (~effectPending /\ InvalidDate \notin SetDates(rows)) =>
     IF SetDates(rows) # {}
     THEN earliest = Min(SetDates(rows)) /\ latest = Max(SetDates(rows))
     ELSE earliest = Null /\ latest = Null

\* everything the page shows of the row at position n
Shown(rs, heap, n) ==
  [name |-> rs[n].name, ip |-> rs[n].ip, start |-> rs[n].start, end |-> rs[n].end,
   selected |-> rs[n].selected, errors |-> heap[rs[n].errors]]

\* C2: updateField(index, field, value) leaves every record at another
\* position as it was: name, address, start, end, selected and messages.
UpdateFieldChangesOneRecord ==
  [][\A index \in Indices, field \in Fields : \A value \in Values(field) :
       handleChange(index, field, value) =>
         \A n \in Positions \ {index + 1} :
            Shown(rows', errorsHeap', n) = Shown(rows, errorsHeap, n)]_vars

\* C3: updateField(index, address, value) sets the record's address message
\* exactly when value is no valid address and clears it otherwise; updateField
\* of any other field leaves the message as it was.
AddressMessageFollowsAddressEdits ==
  [][\A index \in Indices, field \in Fields : \A value \in Values(field) :
       handleChange(index, field, value) =>
         IF field = "ip"
         THEN (errorsIp(rows', errorsHeap', index + 1) # "") <=> ~validateIP(value)
         ELSE errorsIp(rows', errorsHeap', index + 1) = errorsIp(rows, errorsHeap, index + 1)]_vars

\* C5: at most one import is in flight at any time.
AtMostOneImportInFlight == Len(readers) <= 1

\* the text is no ISO-8601 timestamp: missing, empty or unparseable
NoTimestamp(s) == Len(s) = 0 \/ parseISO(s) = InvalidDate

\* C6: after an import, a record whose start (end) text was missing, empty or
\* unparseable has start (end) unset, and a record with an unset timestamp
\* renders no segments.
BadTimestampsImportAsUnset ==
  [][\A k \in 1..MaxReaders :
       readerOnload(k) =>
         LET lines == SelectSeq(SplitLines(readers[k], <<>>), NonBlankLine)
         IN  \A n \in 1..Len(lines) :
               LET fields == SplitTab(lines[n], <<>>)
               IN  /\ NoTimestamp(FieldOf(fields, 3)) => rows'[n].start = Null
                   /\ NoTimestamp(FieldOf(fields, 4)) => rows'[n].end = Null
                   /\ (NoTimestamp(FieldOf(fields, 3)) \/ NoTimestamp(FieldOf(fields, 4)))
                        => view'[n].kind = "none"]_vars

\* the number of the calendar day of a valid date
DayOf(d) == d \div MsPerDay

\* C8: in every render, settled or not, every segment of a record with
\* start < end has the palette color of its day: palette[dd mod 4] with
\* dd >= 0 the days from earliest's calendar day to the segment's.
EverySegmentHasItsDayColor ==
  \A n \in 1..Len(view) :
    \A i \in 1..Len(view[n].segs) :
      LET seg == view[n].segs[i]
      IN  /\ IsDate(earliest)
          /\ IsDate(seg.start)
          /\ DayOf(seg.start) >= DayOf(earliest)
          /\ seg.color = barColors[((DayOf(seg.start) - DayOf(earliest)) % 4) + 1]

-----------------------------------------------------------------------------
(* The table edits and the layout: rows that are named and whose start and   *)
(* end range over several calendar days, end-of-day and midnight instants    *)
(* included                                                                  *)

\* day 0 10:00, day 0 23:59:59.999, day 1 00:00, day 2 14:00, day 5 06:00
LayoutDates ==
  {At(0, Hour(10)), At(0, MsPerDay - 1), At(1, 0), At(2, Hour(14)), At(5, Hour(6))}

NextLayout ==
  \/ useEffect
  \/ handleAddRow(MaxLayoutRows)
  \/ \E index \in 0..(MaxLayoutRows - 1) : handleChange(index, "name", NameA)
  \/ \E index \in 0..(MaxLayoutRows - 1), field \in {"start", "end"} :
       \E value \in LayoutDates \cup {Null} : handleChange(index, field, value)
  \/ \E index \in 0..(MaxLayoutRows - 1) : handleDeleteRow(index)

SpecLayout == Init /\ [][NextLayout]_vars

\* C7: a record with start < end is shown as one segment per calendar day
\* from start's day to end's day, in day order; the first begins at start,
\* the last ends at end, every other boundary is the last millisecond of a
\* day followed by the first millisecond of the next.
OneSegmentPerCalendarDay ==
  \A n \in 1..Len(rows) :
    DateLt(rows[n].start, rows[n].end) =>
      LET segs == view[n].segs
          firstDay == DayOf(rows[n].start)
          lastDay == DayOf(rows[n].end)
      IN  /\ view[n].kind = "segments"
          /\ Len(segs) = lastDay - firstDay + 1
          /\ segs[1].start = rows[n].start
          /\ segs[Len(segs)].end = rows[n].end
          /\ \A i \in 1..(Len(segs) - 1) :
               /\ segs[i].end = (firstDay + i) * MsPerDay - 1
               /\ segs[i + 1].start = (firstDay + i) * MsPerDay

\* C7 witness: day 0 10:00 to day 2 14:00 is drawn as three segments, the
\* second one the whole of day 1.
ThreeDaySlotShown ==
  \E n \in 1..Len(rows) :
    /\ rows[n].start = At(0, Hour(10))
    /\ rows[n].end = At(2, Hour(14))
    /\ Len(view[n].segs) = 3
    /\ view[n].segs[2].start = At(1, 0)
    /\ view[n].segs[2].end = At(1, MsPerDay - 1)

\* C10: every segment of a record with start < end lasts longer than nothing
\* and, once the bounds are derived, lies inside them.
EverySegmentHasDuration ==
  \A n \in 1..Len(rows) :
    DateLt(rows[n].start, rows[n].end) =>
      \A i \in 1..Len(view[n].segs) :
        LET seg == view[n].segs[i]
        IN  /\ seg.start < seg.end
            /\ ~effectPending =>
                 /\ earliest <= seg.start /\ seg.end <= latest
                 /\ seg.width.den > 0
                 /\ seg.width.num > 0 /\ seg.width.num <= seg.width.den

-----------------------------------------------------------------------------
(* Drag placement: rows imported under the names a, b, c, ... and dragged    *)

Letters == <<"a", "b", "c", "d", "e", "f">>

NameOf(n) == <<Ch(Letters[n])>>

\* the lines "a", "b", ... of a file of n records, each with a name only
DragFile(n) == Join([m \in 1..n |-> NameOf(m)], <<LF>>)

NextDrag ==
  \/ useEffect
  \/ \E n \in 1..MaxDragRows : handleImport(DragFile(n))
  \/ \E k \in 1..MaxReaders : readerOnload(k)
  \/ \E source \in 0..(MaxDragRows - 1), destination \in -1..(MaxDragRows - 1) :
       handleDragEnd(source, destination)

SpecDrag == Init /\ [][NextDrag]_vars

NamesOf(rs) == [n \in 1..Len(rs) |-> rs[n].name]

\* the position of the record named name
PositionOf(rs, name) == CHOOSE n \in 1..Len(rs) : rs[n].name = name

\* C9: a drag from i to j with i # j puts the record of position i at
\* position j, keeps every record and the relative order of the others, and
\* the drag from j back to i restores the sequence.
ReorderMovesOneRecordAndRoundTrips ==
  [][\A i \in 0..(MaxDragRows - 1), j \in 0..(MaxDragRows - 1) :
       (i # j /\ handleDragEnd(i, j)) =>
         /\ Len(rows') = Len(rows)
         /\ Shown(rows', errorsHeap', j + 1) = Shown(rows, errorsHeap, i + 1)
         /\ \A n \in 1..Len(rows) :
              Shown(rows', errorsHeap', PositionOf(rows', rows[n].name))
                = Shown(rows, errorsHeap, n)
         /\ \A a \in 1..Len(rows), b \in 1..Len(rows) :
              (a < b /\ a # i + 1 /\ b # i + 1) =>
                 PositionOf(rows', rows[a].name) < PositionOf(rows', rows[b].name)
         /\ CanonRows(reorder(rows', j, i)) = rows]_vars

\* C9 witness: the rows imported as a, b, c stand in the order b, c, a, which
\* only a drag of the first row to the last place produces.
FirstRowDraggedToTheEnd ==
  /\ Len(rows) = 3
  /\ NamesOf(rows) = <<NameOf(2), NameOf(3), NameOf(1)>>

-----------------------------------------------------------------------------
(* The text round trip: a store as an import of up to MaxTextRows lines on a *)
(* fresh page leaves it, exported and read back                              *)

\* "", "a", " ", "a<TAB>" (a pasted tab)
TextNames == {<<>>, NameA, <<SP>>, <<Ch("a"), TAB>>}

TextIps == {<<>>, GoodIp}

\* day 0 10:00:07.500
T0ms == At(0, Hour(10) + 7 * MsPerSecond + 500)

\* start and end of a row: none, both, an unparseable start
TextDates == {<<Null, Null>>, <<T0ms, T1>>, <<InvalidDate, Null>>}

TextRows ==
  {[name |-> name, ip |-> ip, start |-> dates[1], end |-> dates[2],
    errors |-> 0, selected |-> FALSE] :
     name \in TextNames, ip \in TextIps, dates \in TextDates}

TextStores == UNION {[1..n -> TextRows] : n \in 0..MaxTextRows}

InitText ==
  /\ \E rs \in TextStores :
       /\ rows = [n \in 1..Len(rs) |-> [rs[n] EXCEPT !.errors = n]]
       /\ errorsHeap = [n \in 1..Len(rs) |-> NewErrors]
       /\ view = render(rs, Null, Null)
  /\ earliest = Null
  /\ latest = Null
  /\ selectAll = FALSE
  /\ effectPending = TRUE
  /\ readers = <<>>
  /\ download = NoFile

\* the exported file is the one chosen for the import
NextText ==
  \/ useEffect
  \/ handleExport
  \/ download # NoFile /\ handleImport(download)
  \/ \E k \in 1..MaxReaders : readerOnload(k)

SpecText == InitText /\ [][NextText]_vars

\* k-th records alike in name, address, start and end, the timestamps to the second
SameRecords(rs, imported) ==
  /\ Len(imported) = Len(rs)
  /\ \A n \in 1..Len(rs) :
       /\ imported[n].name = rs[n].name
       /\ imported[n].ip = rs[n].ip
       /\ \A pair \in {<<rs[n].start, imported[n].start>>, <<rs[n].end, imported[n].end>>} :
            IF pair[1] = Null THEN pair[2] = Null
            ELSE /\ IsDate(pair[1]) /\ IsDate(pair[2])
                 /\ pair[1] \div MsPerSecond = pair[2] \div MsPerSecond

HasChar(s, c) == \E i \in 1..Len(s) : s[i] = c

\* the rows export and import can carry: every date valid, no tab or line
\* feed in a name or address, and no row that exports as a blank line
CleanRows(rs) ==
  \A n \in 1..Len(rs) :
    /\ rs[n].start # InvalidDate /\ rs[n].end # InvalidDate
    /\ \A s \in {rs[n].name, rs[n].ip} : ~HasChar(s, TAB) /\ ~HasChar(s, LF)
    /\ ~(IsBlank(rs[n].name) /\ IsBlank(rs[n].ip) /\ rs[n].start = Null /\ rs[n].end = Null)

\* C4 as stated: every store whose timestamps are set or unset, the rows of
\* addRow included, exports to a text whose import has the same records in
\* the same places.
RoundTripOfEveryStore ==
  InvalidDate \notin SetDates(rows) =>
    SameRecords(rows, importFromText(exportToText(rows)))

\* C4 as amended: a store whose dates are all valid, whose names and
\* addresses hold no tab or line feed and none of whose records is blank
\* (no timestamp set and only white space in name and address) exports to
\* a text whose import has the same records in the same places.
RoundTripOfCleanStore ==
  CleanRows(rows) =>
    /\ ~exportThrows(rows)
    /\ SameRecords(rows, importFromText(exportToText(rows)))

\* C4 witness: two rows that went through export and import: the first has
\* lost the milliseconds of 10:00:07.500, which only the round trip removes.
TwoRowsReadBack ==
  /\ Len(rows) = 2
  /\ readers = <<>>
  /\ rows[1].start = At(0, Hour(10) + 7 * MsPerSecond)
  /\ rows[1].end = T1
  /\ rows[2].name = NameA
  /\ rows[2].start = Null

=============================================================================
